---------------------------- MODULE Spec2Model ----------------------------
(***************************************************************************)
(* A model of the goroutine pool of JsForLife/routine-pool:                *)
(*   src/pool.go            Pool, NewPool, Start, AddTask, Stop, dispatch, *)
(*                          newFuture, Future.Close                        *)
(*   src/unnamed/part_000   worker, worker.start (lines 144-182)           *)
(*   src/pool_test.go       the callers: each creates a Future, submits a  *)
(*                          batch, drains it and closes the Future         *)
(*                                                                         *)
(* Every goroutine is a process with a program counter.  Channels are      *)
(* modelled by what Go does with them: a buffered channel is a bounded     *)
(* sequence plus a closed flag, an unbuffered channel is a rendezvous of a *)
(* blocked sender with a selecting receiver, a send on or a close of a     *)
(* closed channel is a panic, and an unrecovered panic ends the process.   *)
(***************************************************************************)
EXTENDS Integers, Sequences, FiniteSets, TLC

(* ------------------------------ bounds --------------------------------- *)

\* NewPool is tried with 1..MaxWorkers workers.
MaxWorkers == 2

\* NewPool is tried with taskChSize in 0..MaxTaskChSize (0 is raised to 1).
MaxTaskChSize == 1

\* Successful Start calls in one run (each launches a generation of goroutines).
MaxStarts == 2

\* Tasks in the larger batch (caller A's); caller B's batch is one shorter.
BatchSize == 2

(* ------------------------------ values --------------------------------- *)

\* The two callers of TestPoolRoutine (groups A and B).
Callers == {"A", "B"}

Gens == 1..MaxStarts

WorkerIds == 0..(MaxWorkers - 1)

\* len(tasks) of each caller's batch (pool_test.go 18-29), never empty.
Batch(c) == IF c = "A" \/ BatchSize = 1 THEN BatchSize ELSE BatchSize - 1

Indices == 0..(BatchSize - 1)

\* Go's nil (a nil interface value, a nil error).
Nil == <<>>

\* Task{index, fn, responseCh}: fn is named by the caller and position that
\* made the closure, responseCh by the caller that owns the Future.
Task(c, i) == [index |-> i, fn |-> <<c, i>>, responseCh |-> c]

NoTask == [index |-> -1, fn |-> <<"none", -1>>, responseCh |-> "none"]

\* Result{index, value, err}
Result(i, v, e) == [index |-> i, value |-> v, err |-> e]

NoResult == [index |-> -1, value |-> Nil, err |-> Nil]

\* The task functions that return an error: the last one of caller B's
\* batch.  Every other one returns its value, as the closures of the test do.
FailingFns == {<<"B", Batch("B") - 1>>}

\* task.fn(): the pair (result, err) the closure fn returns.
CallFn(fn) ==
    IF fn \notin FailingFns
    THEN [value |-> <<"result", fn[1], fn[2]>>, err |-> Nil]
    ELSE [value |-> Nil, err |-> <<"error", fn[1], fn[2]>>]

VARIABLES
    numWorkers,        \* Pool.numWorkers
    taskChCap,         \* cap(Pool.taskCh)
    closed,            \* Pool.closed (atomic.Bool)
    taskCh,            \* Pool.taskCh: the buffered tasks
    taskChClosed,      \* close(p.taskCh) has run
    shutdownChClosed,  \* close(p.shutdownCh) has run
    wShutdownClosed,   \* close(w.shutdown) has run, per worker
    wg,                \* Pool.wg: the WaitGroup counter
    gen,               \* number of Start calls that won the CAS
    startPc,           \* per generation: the Start call that won it
    stopPc,            \* per generation: the Stop call that ended it
    dpc,               \* per generation: the dispatch goroutine
    dtask,             \* the task the dispatcher holds (local variable task)
    taskIndex,         \* dispatch's local taskIndex
    wpc,               \* per generation and worker: the worker.start goroutine
    wtask,             \* the task a worker holds
    wres,              \* the Result a worker is sending
    cpc,               \* per caller: position in the test's goroutine
    cidx,              \* per caller: the loop variable i of the submit loop
    fut,               \* per caller: Future.Result, the buffered Results
    futCap,            \* per caller: cap(Future.Result)
    futClosed,         \* per caller: Future.Close has run
    results,           \* per caller: the map results of the test
    ndrained,          \* per caller: the loop variable i of the drain loop
    fault,             \* the panic that ended the process, or "none"
    lastCall,          \* the last rejected lifecycle call and its error
    accepted,          \* history: tasks for which AddTask returned nil
    received,          \* history: per task, how many workers received it
    written,           \* history: per Future, how many Results were written to it
    wins               \* history: the lifecycle calls that won their CAS

poolVars == <<numWorkers, taskChCap, closed, taskCh, taskChClosed,
              shutdownChClosed, wShutdownClosed, wg>>
lifeVars == <<gen, startPc, stopPc>>
dispVars == <<dpc, dtask, taskIndex>>
workVars == <<wpc, wtask, wres>>
callVars == <<cpc, cidx, fut, futCap, futClosed, results, ndrained>>
histVars == <<lastCall, accepted, received, written, wins>>

vars == <<poolVars, lifeVars, dispVars, workVars, callVars, histVars, fault>>


(* ------------------------- construction -------------------------------- *)

\* NewPool's normalisation of taskChSize (pool.go 38-40).
TaskChCapacity(taskChSize) == IF taskChSize <= 0 THEN 1 ELSE taskChSize

\* The size newFuture is called with: len(tasks) (pool_test.go 44).
FutureSizes(c) == {Batch(c)}

\* newFuture(size): an open, empty channel of capacity size.
NewFuture(size) == [buf |-> <<>>, cap |-> size, closed |-> FALSE]

\* The state NewPool(nw, size) returns, with each caller's Future created.
NewPool(nw, size, sizes) ==
    /\ numWorkers = nw
    /\ taskChCap = TaskChCapacity(size)
    /\ closed = TRUE
    /\ taskCh = <<>>
    /\ taskChClosed = FALSE
    /\ shutdownChClosed = FALSE
    /\ wShutdownClosed = [i \in WorkerIds |-> FALSE]
    /\ wg = 0
    /\ gen = 0
    /\ startPc = [g \in Gens |-> "none"]
    /\ stopPc = [g \in Gens |-> "none"]
    /\ dpc = [g \in Gens |-> "none"]
    /\ dtask = [g \in Gens |-> NoTask]
    /\ taskIndex = [g \in Gens |-> 0]
    /\ wpc = [g \in Gens |-> [i \in WorkerIds |-> "none"]]
    /\ wtask = [g \in Gens |-> [i \in WorkerIds |-> NoTask]]
    /\ wres = [g \in Gens |-> [i \in WorkerIds |-> NoResult]]
    /\ cpc = [c \in Callers |-> "submit"]
    /\ cidx = [c \in Callers |-> 0]
    /\ fut = [c \in Callers |-> NewFuture(sizes[c]).buf]
    /\ futCap = [c \in Callers |-> NewFuture(sizes[c]).cap]
    /\ futClosed = [c \in Callers |-> NewFuture(sizes[c]).closed]
    /\ results = [c \in Callers |-> [i \in Indices |-> NoResult]]
    /\ ndrained = [c \in Callers |-> 0]
    /\ fault = "none"
    /\ lastCall = <<"none", "">>
    /\ accepted = {}
    /\ received = [c \in Callers |-> [i \in Indices |-> 0]]
    /\ written = [c \in Callers |-> 0]
    /\ wins = <<>>

Init ==
    \E nw \in 1..MaxWorkers, size \in 0..MaxTaskChSize,
       sizes \in [Callers -> 1..BatchSize] :
        /\ \A c \in Callers : sizes[c] \in FutureSizes(c)
        /\ NewPool(nw, size, sizes)

\* The workers of the pool: p.workers[0..numWorkers-1].
Workers == 0..(numWorkers - 1)

\* An unrecovered panic ends the process: nothing runs after it.
Alive == fault = "none"

(* ----------------------------- Start ----------------------------------- *)

\* p.closed.CompareAndSwap(true, false) succeeds (pool.go 63).
StartCAS ==
    /\ Alive
    /\ closed = TRUE
    /\ gen < MaxStarts
    /\ closed' = FALSE
    /\ gen' = gen + 1
    /\ startPc' = [startPc EXCEPT ![gen + 1] = "launch"]
    /\ wins' = Append(wins, "Start")
    /\ UNCHANGED <<numWorkers, taskChCap, taskCh, taskChClosed,
                   shutdownChClosed, wShutdownClosed, wg, stopPc,
                   dispVars, workVars, callVars, fault,
                   lastCall, accepted, received, written>>

\* A Start whose failed CAS does not return: it launches the goroutines anyway.
StartFailLaunches ==
    /\ Alive
    /\ closed = FALSE
    /\ lastCall' = <<"Start", "the pool is already running">>
    /\ wg' = wg + numWorkers + 1
    /\ UNCHANGED <<numWorkers, taskChCap, closed, taskCh, taskChClosed,
                   shutdownChClosed, wShutdownClosed,
                   lifeVars, dispVars, workVars, callVars, fault,
                   accepted, received, written, wins>>

\* The CAS fails: Start returns "the pool is already running" (pool.go 63-65).
StartFail ==
    /\ Alive
    /\ closed = FALSE
    /\ lastCall' = <<"Start", "the pool is already running">>
    /\ UNCHANGED <<poolVars, lifeVars, dispVars, workVars, callVars, fault,
                   accepted, received, written, wins>>

\* wg.Add(numWorkers + 1), go w.start() for every worker, go p.dispatch(),
\* return nil (pool.go 67-72).
StartLaunch(g) ==
    /\ Alive
    /\ startPc[g] = "launch"
    /\ wg' = wg + numWorkers + 1
    /\ wpc' = [wpc EXCEPT ![g] =
                 [i \in WorkerIds |-> IF i \in Workers THEN "select" ELSE "none"]]
    /\ dpc' = [dpc EXCEPT ![g] = "select"]
    /\ taskIndex' = [taskIndex EXCEPT ![g] = 0]
    /\ startPc' = [startPc EXCEPT ![g] = "returned"]
    /\ UNCHANGED <<numWorkers, taskChCap, closed, taskCh, taskChClosed,
                   shutdownChClosed, wShutdownClosed, gen, stopPc, dtask,
                   wtask, wres, callVars, histVars, fault>>

(* ------------------------------ Stop ----------------------------------- *)

\* p.closed.CompareAndSwap(false, true) succeeds (pool.go 94).
StopCAS ==
    /\ Alive
    /\ closed = FALSE
    /\ closed' = TRUE
    /\ stopPc' = [stopPc EXCEPT ![gen] = "closeTaskCh"]
    /\ wins' = Append(wins, "Stop")
    /\ UNCHANGED <<numWorkers, taskChCap, taskCh, taskChClosed,
                   shutdownChClosed, wShutdownClosed, wg, gen, startPc,
                   dispVars, workVars, callVars, fault,
                   lastCall, accepted, received, written>>

\* The CAS fails: Stop returns "the pool is already closed" (pool.go 94-96).
StopFail ==
    /\ Alive
    /\ closed = TRUE
    /\ lastCall' = <<"Stop", "the pool is already closed">>
    /\ UNCHANGED <<poolVars, lifeVars, dispVars, workVars, callVars, fault,
                   accepted, received, written, wins>>

\* close(p.taskCh) (pool.go 97); closing a closed channel panics.
StopCloseTaskCh(g) ==
    /\ Alive
    /\ stopPc[g] = "closeTaskCh"
    /\ IF taskChClosed
       THEN /\ fault' = "Stop: close of closed channel"
            /\ UNCHANGED <<taskChClosed, stopPc>>
       ELSE /\ taskChClosed' = TRUE
            /\ stopPc' = [stopPc EXCEPT ![g] = "closeShutdown"]
            /\ UNCHANGED fault
    /\ UNCHANGED <<numWorkers, taskChCap, closed, taskCh, shutdownChClosed,
                   wShutdownClosed, wg, gen, startPc,
                   dispVars, workVars, callVars, histVars>>

\* close(p.shutdownCh), then close(w.shutdown) for every worker (pool.go 98-101).
StopCloseShutdown(g) ==
    /\ Alive
    /\ stopPc[g] = "closeShutdown"
    /\ IF shutdownChClosed \/ \E i \in Workers : wShutdownClosed[i]
       THEN /\ fault' = "Stop: close of closed channel"
            /\ UNCHANGED <<shutdownChClosed, wShutdownClosed, stopPc>>
       ELSE /\ shutdownChClosed' = TRUE
            /\ wShutdownClosed' = [i \in WorkerIds |-> i \in Workers]
            /\ stopPc' = [stopPc EXCEPT ![g] = "wait"]
            /\ UNCHANGED fault
    /\ UNCHANGED <<numWorkers, taskChCap, closed, taskCh, taskChClosed,
                   wg, gen, startPc,
                   dispVars, workVars, callVars, histVars>>

\* p.wg.Wait() returns once the counter is zero; Stop returns nil (pool.go 102-103).
StopWait(g) ==
    /\ Alive
    /\ stopPc[g] = "wait"
    /\ wg = 0
    /\ stopPc' = [stopPc EXCEPT ![g] = "returned"]
    /\ UNCHANGED <<poolVars, gen, startPc,
                   dispVars, workVars, callVars, histVars, fault>>

(* ----------------------------- AddTask --------------------------------- *)

\* An AddTask that does not look at the flag.
AddTaskNoCheck(c) ==
    /\ Alive
    /\ cpc[c] = "submit"
    /\ cpc' = [cpc EXCEPT ![c] = "send"]
    /\ UNCHANGED <<poolVars, lifeVars, dispVars, workVars, cidx, fut, futCap,
                   futClosed, results, ndrained, histVars, fault>>

\* if p.closed.Load() { return error } (pool.go 84-86).  The caller of the
\* test gives up on an error (pool_test.go 49-52).
AddTaskCheck(c) ==
    /\ Alive
    /\ cpc[c] = "submit"
    /\ cpc' = [cpc EXCEPT ![c] = IF closed THEN "failed" ELSE "send"]
    /\ UNCHANGED <<poolVars, lifeVars, dispVars, workVars, cidx, fut, futCap,
                   futClosed, results, ndrained, histVars, fault>>

\* An AddTask that enqueues without waiting for room in the queue.
AddTaskSendOverflow(c) ==
    /\ Alive
    /\ cpc[c] = "send"
    /\ ~taskChClosed
    /\ taskCh' = Append(taskCh, Task(c, cidx[c]))
    /\ accepted' = accepted \cup {Task(c, cidx[c])}
    /\ cidx' = [cidx EXCEPT ![c] = cidx[c] + 1]
    /\ cpc' = [cpc EXCEPT ![c] =
                 IF cidx[c] + 1 < Batch(c) THEN "submit" ELSE "drain"]
    /\ UNCHANGED <<numWorkers, taskChCap, closed, taskChClosed,
                   shutdownChClosed, wShutdownClosed, wg, lifeVars, dispVars,
                   workVars, fut, futCap, futClosed, results, ndrained,
                   lastCall, received, written, wins, fault>>

\* p.taskCh <- task; return nil (pool.go 87-89): blocks while the buffer is
\* full, panics when the channel is closed.
AddTaskSend(c) ==
    /\ Alive
    /\ cpc[c] = "send"
    /\ IF taskChClosed
       THEN /\ fault' = "AddTask: send on closed channel"
            /\ UNCHANGED <<taskCh, cpc, cidx, accepted>>
       ELSE /\ Len(taskCh) < taskChCap
            /\ taskCh' = Append(taskCh, Task(c, cidx[c]))
            /\ accepted' = accepted \cup {Task(c, cidx[c])}
            /\ cidx' = [cidx EXCEPT ![c] = cidx[c] + 1]
            /\ cpc' = [cpc EXCEPT ![c] =
                         IF cidx[c] + 1 < Batch(c) THEN "submit" ELSE "drain"]
            /\ UNCHANGED fault
    /\ UNCHANGED <<numWorkers, taskChCap, closed, taskChClosed,
                   shutdownChClosed, wShutdownClosed, wg, lifeVars, dispVars,
                   workVars, fut, futCap, futClosed, results, ndrained,
                   lastCall, received, written, wins>>

(* --------------------------- the caller -------------------------------- *)

\* result := <-future.Result; results[result.index] = result
\* (pool_test.go 57-62).
Drain(c) ==
    /\ Alive
    /\ cpc[c] = "drain"
    /\ fut[c] # <<>>
    /\ LET r == Head(fut[c]) IN
        /\ fut' = [fut EXCEPT ![c] = Tail(fut[c])]
        /\ results' = [results EXCEPT ![c][r.index] = r]
    /\ ndrained' = [ndrained EXCEPT ![c] = ndrained[c] + 1]
    /\ cpc' = [cpc EXCEPT ![c] =
                 IF ndrained[c] + 1 < Batch(c) THEN "drain" ELSE "drained"]
    /\ UNCHANGED <<poolVars, lifeVars, dispVars, workVars, cidx, futCap,
                   futClosed, histVars, fault>>

\* Future.Close (pool.go 127-129), deferred by the caller (pool_test.go 45):
\* it runs when the caller returns, after the drain or after a failed AddTask.
FutureClose(c) ==
    /\ Alive
    /\ cpc[c] \in {"drained", "failed"}
    /\ futClosed' = [futClosed EXCEPT ![c] = TRUE]
    /\ cpc' = [cpc EXCEPT ![c] = IF cpc[c] = "drained" THEN "done" ELSE "gaveup"]
    /\ UNCHANGED <<poolVars, lifeVars, dispVars, workVars, cidx, fut, futCap,
                   results, ndrained, histVars, fault>>

(* ---------------------------- dispatch --------------------------------- *)

\* A dispatcher that hands every task to the first worker.
WorkerIndexFirst(g) == 0

\* workerIndex := taskIndex % p.numWorkers (pool.go 117).
WorkerIndex(g) == taskIndex[g] % numWorkers

\* A receive that leaves the task in the queue.
DispatchPeek(g) ==
    /\ Alive
    /\ dpc[g] = "select"
    /\ taskCh # <<>>
    /\ dtask' = [dtask EXCEPT ![g] = Head(taskCh)]
    /\ dpc' = [dpc EXCEPT ![g] = "handoff"]
    /\ UNCHANGED <<poolVars, lifeVars, taskIndex,
                   workVars, callVars, histVars, fault>>

\* case task, ok := <-p.taskCh with ok true (pool.go 112): a closed channel
\* still delivers what is buffered.
DispatchReceive(g) ==
    /\ Alive
    /\ dpc[g] = "select"
    /\ taskCh # <<>>
    /\ dtask' = [dtask EXCEPT ![g] = Head(taskCh)]
    /\ taskCh' = Tail(taskCh)
    /\ dpc' = [dpc EXCEPT ![g] = "handoff"]
    /\ UNCHANGED <<numWorkers, taskChCap, closed, taskChClosed,
                   shutdownChClosed, wShutdownClosed, wg, lifeVars, taskIndex,
                   workVars, callVars, histVars, fault>>

\* case <-p.taskCh with ok false (pool.go 113-116), or case <-p.shutdownCh
\* (pool.go 120-121): return, and the deferred p.wg.Done() runs.
DispatchExit(g) ==
    /\ Alive
    /\ dpc[g] = "select"
    /\ \/ taskChClosed /\ taskCh = <<>>
       \/ shutdownChClosed
    /\ dpc' = [dpc EXCEPT ![g] = "done"]
    /\ wg' = wg - 1
    /\ UNCHANGED <<numWorkers, taskChCap, closed, taskCh, taskChClosed,
                   shutdownChClosed, wShutdownClosed, lifeVars, dtask,
                   taskIndex, workVars, callVars, histVars, fault>>

\* A hand-off that does not wait for the worker: the task is dropped.
HandoffDrop(g, h) ==
    /\ Alive
    /\ dpc[g] = "handoff"
    /\ h = g
    /\ dtask' = [dtask EXCEPT ![g] = NoTask]
    /\ taskIndex' = [taskIndex EXCEPT ![g] = taskIndex[g] + 1]
    /\ dpc' = [dpc EXCEPT ![g] = "select"]
    /\ UNCHANGED <<poolVars, lifeVars, workVars, callVars, histVars, fault>>

\* A hand-off that a worker goroutine takes even after it has returned.
HandoffToExited(g, h) ==
    /\ Alive
    /\ dpc[g] = "handoff"
    /\ wpc[h][WorkerIndex(g)] \in {"select", "done"}
    /\ wtask' = [wtask EXCEPT ![h][WorkerIndex(g)] = dtask[g]]
    /\ wpc' = [wpc EXCEPT ![h][WorkerIndex(g)] = "run"]
    /\ received' = [received EXCEPT ![dtask[g].fn[1]][dtask[g].fn[2]] = @ + 1]
    /\ dtask' = [dtask EXCEPT ![g] = NoTask]
    /\ taskIndex' = [taskIndex EXCEPT ![g] = taskIndex[g] + 1]
    /\ dpc' = [dpc EXCEPT ![g] = "select"]
    /\ UNCHANGED <<poolVars, lifeVars, wres, callVars, fault,
                   lastCall, accepted, written, wins>>

\* p.workers[workerIndex].requestCh <- task; taskIndex++ (pool.go 118-119)
\* meeting case task, ok := <-w.requestCh (part_000 159) of a goroutine of
\* that worker: requestCh is unbuffered, so the send completes only with a
\* receiver in its select.
Handoff(g, h) ==
    /\ Alive
    /\ dpc[g] = "handoff"
    /\ wpc[h][WorkerIndex(g)] = "select"
    /\ wtask' = [wtask EXCEPT ![h][WorkerIndex(g)] = dtask[g]]
    /\ wpc' = [wpc EXCEPT ![h][WorkerIndex(g)] = "run"]
    /\ received' = [received EXCEPT ![dtask[g].fn[1]][dtask[g].fn[2]] = @ + 1]
    /\ dtask' = [dtask EXCEPT ![g] = NoTask]
    /\ taskIndex' = [taskIndex EXCEPT ![g] = taskIndex[g] + 1]
    /\ dpc' = [dpc EXCEPT ![g] = "select"]
    /\ UNCHANGED <<poolVars, lifeVars, wres, callVars, fault,
                   lastCall, accepted, written, wins>>

(* ----------------------------- worker ---------------------------------- *)

\* A worker that also looks at its shutdown signals before it runs the task
\* it has received.
WorkerExitBusy(g, i) ==
    /\ Alive
    /\ wpc[g][i] \in {"select", "run"}
    /\ wShutdownClosed[i] \/ shutdownChClosed
    /\ wpc' = [wpc EXCEPT ![g][i] = "done"]
    /\ wg' = wg - 1
    /\ UNCHANGED <<numWorkers, taskChCap, closed, taskCh, taskChClosed,
                   shutdownChClosed, wShutdownClosed, lifeVars, dispVars,
                   wtask, wres, callVars, histVars, fault>>

\* case <-w.shutdown or case <-w.owner.shutdownCh (part_000 172-175):
\* return, and the deferred w.owner.wg.Done() runs.
WorkerExit(g, i) ==
    /\ Alive
    /\ wpc[g][i] = "select"
    /\ wShutdownClosed[i] \/ shutdownChClosed
    /\ wpc' = [wpc EXCEPT ![g][i] = "done"]
    /\ wg' = wg - 1
    /\ UNCHANGED <<numWorkers, taskChCap, closed, taskCh, taskChClosed,
                   shutdownChClosed, wShutdownClosed, lifeVars, dispVars,
                   wtask, wres, callVars, histVars, fault>>

\* A Result that leaves out the error the function returned.
MakeResultDropsErr(task, id) ==
    Result(task.index, CallFn(task.fn).value, Nil)

\* A Result that carries the worker's id where the task's index belongs.
MakeResultWorkerId(task, id) ==
    Result(id, CallFn(task.fn).value, CallFn(task.fn).err)

\* Result{index: task.index, value: result, err: err} for
\* result, err := task.fn() (part_000 163, 166-170), built by worker id.
MakeResult(task, id) ==
    Result(task.index, CallFn(task.fn).value, CallFn(task.fn).err)

\* result, err := task.fn() (part_000 163), then the Result is built and,
\* if task.responseCh is nil, dropped (part_000 165).
WorkerRun(g, i) ==
    /\ Alive
    /\ wpc[g][i] = "run"
    /\ IF wtask[g][i].responseCh = "nil"
       THEN /\ wpc' = [wpc EXCEPT ![g][i] = "select"]
            /\ wtask' = [wtask EXCEPT ![g][i] = NoTask]
            /\ UNCHANGED wres
       ELSE /\ wpc' = [wpc EXCEPT ![g][i] = "send"]
            /\ wres' = [wres EXCEPT ![g][i] = MakeResult(wtask[g][i], i)]
            /\ UNCHANGED wtask
    /\ UNCHANGED <<poolVars, lifeVars, dispVars, callVars, histVars, fault>>

\* A worker that, having written the Result, runs the same task again.
WorkerSendRetry(g, i) ==
    /\ Alive
    /\ wpc[g][i] = "send"
    /\ LET ch == wtask[g][i].responseCh IN
        /\ ~futClosed[ch]
        /\ Len(fut[ch]) < futCap[ch]
        /\ fut' = [fut EXCEPT ![ch] = Append(fut[ch], wres[g][i])]
        /\ written' = [written EXCEPT ![ch] = written[ch] + 1]
        /\ wpc' = [wpc EXCEPT ![g][i] = "run"]
    /\ UNCHANGED <<poolVars, lifeVars, dispVars, wtask, wres, cpc, cidx,
                   futCap, futClosed, results, ndrained, lastCall, accepted,
                   received, wins, fault>>

\* task.responseCh <- Result{...} (part_000 166-170): blocks while the
\* Future is full, panics when it is closed.
WorkerSend(g, i) ==
    /\ Alive
    /\ wpc[g][i] = "send"
    /\ LET ch == wtask[g][i].responseCh IN
        IF futClosed[ch]
        THEN /\ fault' = "worker: send on closed channel"
             /\ UNCHANGED <<fut, written, workVars>>
        ELSE /\ Len(fut[ch]) < futCap[ch]
             /\ fut' = [fut EXCEPT ![ch] = Append(fut[ch], wres[g][i])]
             /\ written' = [written EXCEPT ![ch] = written[ch] + 1]
             /\ wpc' = [wpc EXCEPT ![g][i] = "select"]
             /\ wtask' = [wtask EXCEPT ![g][i] = NoTask]
             /\ wres' = [wres EXCEPT ![g][i] = NoResult]
             /\ UNCHANGED fault
    /\ UNCHANGED <<poolVars, lifeVars, dispVars, cpc, cidx, futCap, futClosed,
                   results, ndrained, lastCall, accepted, received, wins>>

(* -------------------------- specification ------------------------------ *)

Next ==
    \/ StartCAS
    \/ \E g \in Gens : StartLaunch(g)
    \/ StopCAS
    \/ \E g \in Gens : StopCloseTaskCh(g)
    \/ \E g \in Gens : StopCloseShutdown(g)
    \/ \E g \in Gens : StopWait(g)
    \/ \E c \in Callers : AddTaskCheck(c)
    \/ \E c \in Callers : AddTaskSend(c)
    \/ \E c \in Callers : Drain(c)
    \/ \E c \in Callers : FutureClose(c)
    \/ \E g \in Gens : DispatchReceive(g)
    \/ \E g \in Gens : DispatchExit(g)
    \/ \E g \in Gens, h \in Gens : Handoff(g, h)
    \/ \E g \in Gens, i \in Workers : WorkerExit(g, i)
    \/ \E g \in Gens, i \in Workers : WorkerRun(g, i)
    \/ \E g \in Gens, i \in Workers : WorkerSend(g, i)

Spec == Init /\ [][Next]_vars

\* Spec plus the lifecycle calls that lose their CAS.  They change nothing
\* but lastCall, which records the error they return.
NextAll == Next \/ StartFail \/ StopFail

SpecAll == Init /\ [][NextAll]_vars

\* The steps of a pool that is started and never stopped.
NextBatch ==
    \/ StartCAS
    \/ \E g \in Gens : StartLaunch(g)
    \/ \E c \in Callers : AddTaskCheck(c)
    \/ \E c \in Callers : AddTaskSend(c)
    \/ \E c \in Callers : Drain(c)
    \/ \E c \in Callers : FutureClose(c)
    \/ \E g \in Gens : DispatchReceive(g)
    \/ \E g \in Gens, h \in Gens : Handoff(g, h)
    \/ \E g \in Gens, i \in Workers : WorkerRun(g, i)
    \/ \E g \in Gens, i \in Workers : WorkerSend(g, i)

\* The Go scheduler runs every goroutine that can take a step: the caller
\* goroutines, the goroutine inside Start, dispatch and the workers.
BatchFairness ==
    /\ \A c \in Callers :
         WF_vars(AddTaskCheck(c) \/ AddTaskSend(c) \/ Drain(c) \/ FutureClose(c))
    /\ \A g \in Gens : WF_vars(StartLaunch(g))
    /\ \A g \in Gens : WF_vars(DispatchReceive(g) \/ \E h \in Gens : Handoff(g, h))
    /\ \A g \in Gens, i \in WorkerIds : WF_vars(WorkerRun(g, i) \/ WorkerSend(g, i))

SpecBatch == Init /\ [][NextBatch]_vars /\ BatchFairness

\* The steps of a pool that is started and never stopped, one of whose
\* tasks never returns from its function: the first task of caller A.
StuckFns == {<<"A", 0>>}

\* result, err := task.fn() (part_000 163) for a function that returns: the
\* worker that called a function of StuckFns never takes another step.
WorkerRunTerminating(g, i) ==
    /\ wtask[g][i].fn \notin StuckFns
    /\ WorkerRun(g, i)

NextStuck ==
    \/ StartCAS
    \/ \E g \in Gens : StartLaunch(g)
    \/ \E c \in Callers : AddTaskCheck(c)
    \/ \E c \in Callers : AddTaskSend(c)
    \/ \E c \in Callers : Drain(c)
    \/ \E c \in Callers : FutureClose(c)
    \/ \E g \in Gens : DispatchReceive(g)
    \/ \E g \in Gens, h \in Gens : Handoff(g, h)
    \/ \E g \in Gens, i \in Workers : WorkerRunTerminating(g, i)
    \/ \E g \in Gens, i \in Workers : WorkerSend(g, i)

StuckFairness ==
    /\ \A c \in Callers :
         WF_vars(AddTaskCheck(c) \/ AddTaskSend(c) \/ Drain(c) \/ FutureClose(c))
    /\ \A g \in Gens : WF_vars(StartLaunch(g))
    /\ \A g \in Gens : WF_vars(DispatchReceive(g) \/ \E h \in Gens : Handoff(g, h))
    /\ \A g \in Gens, i \in WorkerIds :
         WF_vars(WorkerRunTerminating(g, i) \/ WorkerSend(g, i))

SpecStuck == Init /\ [][NextStuck]_vars /\ StuckFairness

\* A pool that is started and never stopped, whose callers made their
\* Futures of any size from 1 to the size of their batch: newFuture takes
\* whatever size its caller passes (pool.go 76-80).
InitSizes ==
    \E nw \in 1..MaxWorkers, size \in 0..MaxTaskChSize,
       sizes \in [Callers -> 1..BatchSize] :
        /\ \A c \in Callers : sizes[c] <= Batch(c)
        /\ NewPool(nw, size, sizes)

\* The Go scheduler runs every goroutine that can take a step.  A caller
\* whose Future is smaller than its batch is one that may never drain it:
\* nothing makes it take its drain steps.
SizesFairness ==
    /\ \A c \in Callers : WF_vars(AddTaskCheck(c) \/ AddTaskSend(c))
    /\ \A c \in Callers :
         WF_vars(futCap[c] >= Batch(c) /\ (Drain(c) \/ FutureClose(c)))
    /\ \A g \in Gens : WF_vars(StartLaunch(g))
    /\ \A g \in Gens : WF_vars(DispatchReceive(g) \/ \E h \in Gens : Handoff(g, h))
    /\ \A g \in Gens, i \in WorkerIds : WF_vars(WorkerRun(g, i) \/ WorkerSend(g, i))

SpecSizes == InitSizes /\ [][NextBatch]_vars /\ SizesFairness

(* ------------------------------ claims --------------------------------- *)

\* The Result the task t yields: its index with what its function returns.
ResultOf(t) == Result(t.index, CallFn(t.fn).value, CallFn(t.fn).err)

\* The Results held by the Future of caller c came in this order.
InFuture(c) == {fut[c][k] : k \in 1..Len(fut[c])}

\* The Results caller c has taken out of its Future.
Collected(c) == {results[c][i] : i \in Indices} \ {NoResult}

\* Caller c has drained its whole batch: as many Results as it submitted
\* tasks, one for every index, each the Result of the task with that index.
BatchDone(c) ==
    /\ cpc[c] \in {"drained", "done"}
    /\ ndrained[c] = Batch(c)
    /\ written[c] = Batch(c)
    /\ fut[c] = <<>>
    /\ \A i \in 0..(Batch(c) - 1) : results[c][i] = ResultOf(Task(c, i))

\* C1: on a pool that is started and never stopped, with every Future sized
\* to its batch and every computation terminating, a caller whose AddTask
\* calls are accepted eventually drains exactly its N Results, every
\* submitted index once.
C1_BatchCompleteness ==
    \A c \in Callers : (cpc[c] \in {"send", "drain"}) ~> BatchDone(c)

\* C1 witness: with two workers, caller A has drained its batch of two.
C1_Witness ==
    /\ numWorkers = 2
    /\ Batch("A") >= 2
    /\ cpc["A"] = "done"
    /\ BatchDone("A")

\* Some accepted task targeting the Future of caller c yields the Result r.
ProducedFor(r, c) ==
    \E t \in accepted : t.responseCh = c /\ t.index = r.index /\ r = ResultOf(t)

\* C2: every Result in a Future, or drained from it, is the Result of a task
\* that was submitted with that Future as its target, and carries that
\* task's index.
C2_NoCrossTalk ==
    \A c \in Callers : \A r \in InFuture(c) \cup Collected(c) : ProducedFor(r, c)

\* C2 witness: both callers hold Results at once, produced by two workers.
C2_Witness ==
    /\ numWorkers = 2
    /\ Collected("A") # {}
    /\ InFuture("B") \cup Collected("B") # {}

\* The Results of task t that exist: in a worker's hands, in the Future, or
\* drained by the caller.
CopiesOf(t) ==
    Cardinality({w \in Gens \X WorkerIds :
                    wpc[w[1]][w[2]] = "send" /\ wres[w[1]][w[2]] = ResultOf(t)})
    + Cardinality({k \in 1..Len(fut[t.responseCh]) :
                    fut[t.responseCh][k] = ResultOf(t)})
    + (IF results[t.responseCh][t.index] = ResultOf(t) THEN 1 ELSE 0)

\* C3: a task is received by at most one worker, and only if AddTask
\* accepted it; it has at most one Result; and a Future never had more
\* Results written to it than tasks were submitted with it as target.
C3_AtMostOnce ==
    /\ \A c \in Callers, i \in Indices :
         /\ received[c][i] <= 1
         /\ received[c][i] = 1 => Task(c, i) \in accepted
    /\ \A t \in accepted : CopiesOf(t) <= 1
    /\ \A c \in Callers :
         written[c] <= Cardinality({t \in accepted : t.responseCh = c})

\* C3 witness: every task of both batches was received and its Result written.
C3_Witness ==
    /\ \A c \in Callers : written[c] = Batch(c)
    /\ \A c \in Callers : \A i \in 0..(Batch(c) - 1) : received[c][i] = 1

\* C4: a lifecycle call that loses its CAS returns its error and changes
\* nothing else: a Start on a Running pool launches nothing, a Stop on a
\* Stopped pool (started before or not) closes nothing; neither waits; and
\* no Start begins on a Running pool, no Stop on a Stopped one.
C4_MisuseRejected ==
    /\ [][/\ lastCall' # lastCall =>
              /\ UNCHANGED <<poolVars, lifeVars, dispVars, workVars, callVars,
                             fault, accepted, received, written, wins>>
              /\ lastCall' = IF closed
                             THEN <<"Stop", "the pool is already closed">>
                             ELSE <<"Start", "the pool is already running">>
          /\ gen' # gen => closed
          /\ stopPc' # stopPc /\ closed => lastCall' = lastCall /\ closed'
          /\ closed' # closed => lastCall' = lastCall
         ]_vars
    /\ [](Alive /\ ~closed => ENABLED StartFail)
    /\ [](Alive /\ closed => ENABLED StopFail)

\* C4 witness: a Stop was rejected on a pool that was never started.
C4_Witness ==
    /\ gen = 0
    /\ lastCall = <<"Stop", "the pool is already closed">>

\* C5: the calls that win their CAS alternate Start, Stop, Start, ...; and
\* the Stop call that wins on a Running pool closes the channels and succeeds.
C5_OneWinnerPerTransition ==
    /\ \A k \in 1..Len(wins) : wins[k] = IF k % 2 = 1 THEN "Start" ELSE "Stop"
    /\ fault # "Stop: close of closed channel"

\* C6: an AddTask that reads the flag Stopped returns the Closed error,
\* enqueues nothing, and does not wait to do so.
C6_StoppedRejectsSubmit ==
    /\ [][\A c \in Callers :
            cpc[c] = "submit" /\ closed /\ cpc'[c] # cpc[c] =>
                /\ cpc'[c] = "failed"
                /\ UNCHANGED <<taskCh, accepted, cidx, fault>>
         ]_vars
    /\ [](\A c \in Callers : Alive /\ cpc[c] = "submit" => ENABLED AddTaskCheck(c))

\* C6 witness: after a Stop has returned, a caller that had a task accepted
\* got the Closed error for its next one.
C6_Witness ==
    /\ stopPc[1] = "returned"
    /\ cidx["A"] = 1
    /\ cpc["A"] = "failed"

\* C7: no AddTask call ends in a fault.
C7_SubmitNeverFaults == fault # "AddTask: send on closed channel"

\* C8: once a Stop has returned, no goroutine of the Start it matches is
\* running: the dispatcher and every worker have exited.
C8_StopJoinsAll ==
    \A g \in Gens :
        stopPc[g] = "returned" =>
            /\ dpc[g] \in {"none", "done"}
            /\ \A i \in Workers : wpc[g][i] \in {"none", "done"}

\* A step of a goroutine that is already running, or of a lifecycle call
\* that already won its CAS: every step but a new Start or Stop call.
GoroutineStep ==
    \/ \E g \in Gens : StartLaunch(g)
    \/ \E g \in Gens : StopCloseTaskCh(g)
    \/ \E g \in Gens : StopCloseShutdown(g)
    \/ \E g \in Gens : StopWait(g)
    \/ \E c \in Callers : AddTaskCheck(c)
    \/ \E c \in Callers : AddTaskSend(c)
    \/ \E c \in Callers : Drain(c)
    \/ \E c \in Callers : FutureClose(c)
    \/ \E g \in Gens : DispatchReceive(g)
    \/ \E g \in Gens : DispatchExit(g)
    \/ \E g \in Gens, h \in Gens : Handoff(g, h)
    \/ \E g \in Gens, i \in Workers : WorkerExit(g, i)
    \/ \E g \in Gens, i \in Workers : WorkerRun(g, i)
    \/ \E g \in Gens, i \in Workers : WorkerSend(g, i)

\* C9: a Stop that won its CAS and has not returned is never stuck: while
\* the process lives, some goroutine can still take a step.
C9_StopTerminates ==
    \A g \in Gens :
        Alive /\ stopPc[g] \in {"closeTaskCh", "closeShutdown", "wait"} =>
            ENABLED GoroutineStep

\* Tasks known to have been accepted before the first Stop was called: the
\* caller went on to another AddTask that read the flag Running, and the
\* pool was not started again.
AcceptedBeforeStop ==
    {t \in accepted :
        \/ cidx[t.responseCh] > t.index + 1
        \/ cidx[t.responseCh] = t.index + 1 /\ cpc[t.responseCh] = "send"}

\* The Result of task t has been written to its Future.
Delivered(t) ==
    ResultOf(t) \in InFuture(t.responseCh) \cup Collected(t.responseCh)

\* C10: at the step in which Stop returns (its Start having returned, the
\* pool not started again), every task accepted before Stop was called has
\* run and its Result is in its Future.
C10_SafeShutdown ==
    [][stopPc[1] = "wait" /\ stopPc'[1] = "returned"
         /\ startPc[1] = "returned" /\ gen = 1 =>
            \A t \in AcceptedBeforeStop : Delivered(t)
      ]_vars

\* C11: the intake queue never holds more tasks than its capacity, which is
\* the configured size or 1 for a size <= 0; an AddTask whose send finds the
\* open queue full can take no step (it neither returns nor fails nor drops
\* the task); when it does leave the send, there was room and the task went
\* to the tail of the queue; and as soon as there is room it can proceed.
C11_BackpressureBound ==
    /\ [](/\ taskChCap \in {IF s <= 0 THEN 1 ELSE s : s \in 0..MaxTaskChSize}
          /\ Len(taskCh) <= taskChCap)
    /\ [](\A c \in Callers :
            cpc[c] = "send" /\ ~taskChClosed /\ Len(taskCh) = taskChCap =>
                ~ENABLED AddTaskSend(c))
    /\ [](\A c \in Callers :
            Alive /\ cpc[c] = "send" /\ ~taskChClosed /\ Len(taskCh) < taskChCap =>
                ENABLED AddTaskSend(c))
    /\ [][\A c \in Callers :
            cpc[c] = "send" /\ ~taskChClosed
              /\ <<cpc[c], cidx[c], accepted>>' # <<cpc[c], cidx[c], accepted>> =>
                \/ /\ Len(taskCh) < taskChCap
                   /\ taskCh' = Append(taskCh, Task(c, cidx[c]))
                   /\ accepted' = accepted \cup {Task(c, cidx[c])}
                   /\ cidx'[c] = cidx[c] + 1
                   /\ fault' = fault
                \/ /\ \E d \in Callers \ {c} : cpc'[d] # cpc[d]
                   /\ cpc'[c] = cpc[c] /\ cidx'[c] = cidx[c]
         ]_vars

\* C11 witness: on a Running pool the dispatcher holds one task, the queue
\* is full again, and a caller is blocked in its send.
C11_Witness ==
    /\ ~closed /\ ~taskChClosed
    /\ dpc[1] = "handoff"
    /\ Len(taskCh) = taskChCap
    /\ \E c \in Callers : cpc[c] = "send"

FailureOf(fn) == Result(fn[2], Nil, <<"error", fn[1], fn[2]>>)

Removed(g) == taskIndex[g] + (IF dpc[g] = "handoff" THEN 1 ELSE 0)

C15_NoBlockWhileIdle ==
    gen = 1 /\ ~closed /\ Alive
      /\ dpc[1] = "handoff"
      /\ wpc[1][taskIndex[1] % numWorkers] \in {"run", "send"} =>
        \A i \in Workers : wpc[1][i] # "select"

\* C16: a worker that holds a task takes no step but these: it runs the
\* function (building the task's Result) and then writes that one Result to
\* the task's Future and returns to its select; it never exits in between,
\* whatever the shutdown signals say.  While the process lives the run is
\* always possible, and so is the write when the Future is open and has
\* room; the task's Result exists once the function has run, and only once.
C16_ReceivedIsFinished ==
    /\ [][\A g \in Gens, i \in Workers :
            wpc[g][i] \in {"run", "send"} /\ wpc'[g][i] # wpc[g][i] =>
                \/ /\ wpc[g][i] = "run" /\ wpc'[g][i] = "send"
                   /\ wtask'[g][i] = wtask[g][i]
                   /\ wres'[g][i] = ResultOf(wtask[g][i])
                \/ /\ wpc[g][i] = "send" /\ wpc'[g][i] = "select"
                   /\ fut'[wtask[g][i].responseCh] =
                        Append(fut[wtask[g][i].responseCh], ResultOf(wtask[g][i]))
                   /\ written'[wtask[g][i].responseCh] =
                        written[wtask[g][i].responseCh] + 1
         ]_vars
    /\ [](\A g \in Gens, i \in Workers :
            /\ Alive /\ wpc[g][i] = "run" => ENABLED WorkerRun(g, i)
            /\ Alive /\ wpc[g][i] = "send"
                 /\ ~futClosed[wtask[g][i].responseCh]
                 /\ Len(fut[wtask[g][i].responseCh]) < futCap[wtask[g][i].responseCh]
               => ENABLED WorkerSend(g, i)
            /\ wpc[g][i] = "run" => CopiesOf(wtask[g][i]) = 0
            /\ wpc[g][i] = "send" => CopiesOf(wtask[g][i]) = 1)

\* C16 witness: Stop has closed the shutdown signals while a worker of the
\* running pool holds a task whose function has run; its Future is open and
\* has room.
C16_Witness ==
    /\ gen = 1 /\ shutdownChClosed
    /\ \E i \in Workers :
         /\ wShutdownClosed[i]
         /\ wpc[1][i] = "send"
         /\ ~futClosed[wtask[1][i].responseCh]
         /\ Len(fut[wtask[1][i].responseCh]) < futCap[wtask[1][i].responseCh]

\* The shutdown race has cost caller c a task: AddTask accepted it, the
\* dispatcher removed it from the queue and holds it, Stop was called and
\* the worker the dispatcher chose has returned on its shutdown signal; no
\* worker received the task, it has no Result, and the caller, having
\* submitted its whole batch, is draining its Future.
LostInRace(c) ==
    /\ gen = 1 /\ stopPc[1] # "none"
    /\ cpc[c] = "drain"
    /\ dpc[1] = "handoff"
    /\ dtask[1] \in accepted /\ dtask[1].responseCh = c
    /\ wpc[1][taskIndex[1] % numWorkers] = "done"
    /\ received[c][dtask[1].index] = 0
    /\ CopiesOf(dtask[1]) = 0

C18_StuckCostsOneWorker ==
    numWorkers >= 2 /\ ~ENABLED NextStuck =>
        \A t \in accepted : t.fn \notin StuckFns => Delivered(t)

\* The tasks submitted so far with the Future of caller c as their target.
Submitted(c) == Cardinality({t \in accepted : t.responseCh = c})

\* The worker goroutine (g, i) is blocked in its write of a Result.
BlockedOnWrite(g, i) ==
    /\ Alive
    /\ wpc[g][i] = "send"
    /\ ~ENABLED WorkerSend(g, i)

\* C19: a worker is never blocked on the write of a Result to a Future that
\* was given no more tasks than its capacity, whether its caller has drained
\* anything or not; so with every Future sized to its batch no worker is
\* ever blocked on a write; and a worker that is blocked on a write faces a
\* Future holding capacity-many undrained Results.
C19_SizedFuturesNeverStall ==
    /\ \A g \in Gens, i \in Workers :
         wpc[g][i] = "send"
           /\ Submitted(wtask[g][i].responseCh) <= futCap[wtask[g][i].responseCh] =>
            ~BlockedOnWrite(g, i)
    /\ (\A c \in Callers : Batch(c) <= futCap[c]) =>
            \A g \in Gens, i \in Workers : ~BlockedOnWrite(g, i)
    /\ \A g \in Gens, i \in Workers :
         BlockedOnWrite(g, i) =>
            /\ Len(fut[wtask[g][i].responseCh]) = futCap[wtask[g][i].responseCh]
            /\ Submitted(wtask[g][i].responseCh) > futCap[wtask[g][i].responseCh]

\* C19 witness: every Future is sized to its batch, no caller has drained
\* anything, and the workers have written every Result: both Futures are full.
C19_Witness ==
    /\ \A c \in Callers : futCap[c] = Batch(c)
    /\ \A c \in Callers : ndrained[c] = 0 /\ Len(fut[c]) = futCap[c]
    /\ \A g \in Gens, i \in Workers : wpc[g][i] \in {"none", "select"}

\* A step the scheduler sees to: any step of the started pool but the drain
\* and close steps of a caller whose Future is smaller than its batch.
ForcedStep ==
    \/ \E g \in Gens : StartLaunch(g)
    \/ \E c \in Callers : AddTaskCheck(c) \/ AddTaskSend(c)
    \/ \E c \in Callers : futCap[c] >= Batch(c) /\ (Drain(c) \/ FutureClose(c))
    \/ \E g \in Gens : DispatchReceive(g)
    \/ \E g \in Gens, h \in Gens : Handoff(g, h)
    \/ \E g \in Gens, i \in Workers : WorkerRun(g, i)
    \/ \E g \in Gens, i \in Workers : WorkerSend(g, i)

\* C20: a caller that submitted its N tasks to its own Future of capacity N
\* receives all N Results even when the other caller's Future is too small
\* and is not drained: when nothing is left to do but that other caller's
\* drain, the caller with the sized Future has drained its whole batch.
C20_ProgressIsolation ==
    ~closed /\ ~ENABLED ForcedStep =>
        \A c \in Callers :
            futCap[c] = Batch(c) /\ Submitted(c) = Batch(c) => BatchDone(c)

=============================================================================
